---- MODULE Spec2Model ----
(***************************************************************************)
(* Model of the GlobalStake PSBT tools:                                    *)
(*   sign_and_broadcast.js      (src/unnamed/part_000)                     *)
(*   fetch_utxos_and_build.js   (src/fetch_utxos_and_build.js)             *)
(* Strings that the code converts (toLowerCase, parseInt) are sequences of *)
(* one-character strings.  The calls into bitcoinjs-lib are modelled by    *)
(* what that library does at the call site: signInput, validate, finalize  *)
(* and extract work on a PSBT record whose inputs carry the previous       *)
(* output (witnessUtxo), the partial signatures and the final witness.     *)
(***************************************************************************)
EXTENDS Integers, Sequences, FiniteSets, TLC

\* ------------------------------------------------------------------ bounds
MaxInputs == 3
MaxUtxos == 2

\* ----------------------------------------------------------------- strings
mainnetS == <<"m","a","i","n","n","e","t">>
bitcoinS == <<"b","i","t","c","o","i","n">>
testnetS == <<"t","e","s","t","n","e","t">>
signetS  == <<"s","i","g","n","e","t">>
regtestS == <<"r","e","g","t","e","s","t">>
TestNetS == <<"T","e","s","t","N","e","t">>
tesnetS  == <<"t","e","s","n","e","t">>
EmptyS   == <<>>

UpperToLower == [T |-> "t", N |-> "n", M |-> "m", S |-> "s", R |-> "r", B |-> "b"]

toLowerCase(s) ==
  [k \in 1..Len(s) |-> IF s[k] \in DOMAIN UpperToLower THEN UpperToLower[s[k]] ELSE s[k]]

\* !x for a command-line argument: a missing or empty argument is falsy
Falsy(s) == Len(s) = 0

\* ---------------------------------------------------------------- networks
NoNetwork == [name |-> "none",    bech32 |-> "",     wif |-> ""]
bitcoinN  == [name |-> "bitcoin", bech32 |-> "bc",   wif |-> "main"]
testnetN  == [name |-> "testnet", bech32 |-> "tb",   wif |-> "test"]
regtestN  == [name |-> "regtest", bech32 |-> "bcrt", wif |-> "test"]
\* bitcoinjs-lib's networks module exports bitcoin, testnet and regtest
\* only: the property read `bitcoin.networks.signet` yields undefined
signetN   == [name |-> "undefined", bech32 |-> "", wif |-> ""]

\* `network || networks.bitcoin`: how ECPair.fromWIF and payments.p2wpkh
\* take a network that is undefined
OrBitcoin(net) == IF net = signetN THEN bitcoinN ELSE net

\* getNetwork(name): [ok, net]; ok = FALSE is `throw new Error("Unknown network")`
getNetwork(name) ==
  LET n == toLowerCase(name) IN
  IF n = mainnetS \/ n = bitcoinS THEN [ok |-> TRUE, net |-> bitcoinN]
  ELSE IF n = testnetS THEN [ok |-> TRUE, net |-> testnetN]
  ELSE IF n = signetS THEN [ok |-> TRUE, net |-> signetN]
  ELSE IF n = regtestS THEN [ok |-> TRUE, net |-> regtestN]
  ELSE [ok |-> FALSE, net |-> NoNetwork]

\* broadcastUrl(name): [ok, url, err]
broadcastUrl(name) ==
  LET n == toLowerCase(name) IN
  IF n = mainnetS \/ n = bitcoinS
    THEN [ok |-> TRUE, url |-> "https://blockstream.info/api/tx", err |-> ""]
  ELSE IF n = testnetS
    THEN [ok |-> TRUE, url |-> "https://blockstream.info/testnet/api/tx", err |-> ""]
  ELSE IF n = signetS
    THEN [ok |-> TRUE, url |-> "https://mempool.space/signet/api/tx", err |-> ""]
  ELSE IF n = regtestS
    THEN [ok |-> FALSE, url |-> "", err |-> "No public broadcaster for regtest."]
  ELSE [ok |-> FALSE, url |-> "", err |-> "Unknown network"]

\* -------------------------------------------------------------------- keys
\* K1 is the private key of the WIF; K2 and K3 belong to other owners.
PublicKey(k) == <<"pub", k>>
NoKeyPair == [privateKey |-> "", publicKey |-> <<"pub", "">>]

\* ECPair.fromWIF(wif, network): the WIF's version byte must be the network's
fromWIF(wif, net) ==
  IF wif.version = OrBitcoin(net).wif
    THEN [ok |-> TRUE, kp |-> [privateKey |-> wif.key, publicKey |-> PublicKey(wif.key)]]
    ELSE [ok |-> FALSE, kp |-> NoKeyPair]

\* payments.p2wpkh({pubkey, network}): the address and its locking script
P2wpkhScript(pub) == [type |-> "p2wpkh", m |-> 1, keys |-> {pub}]
p2wpkh(pub, net) ==
  [address |-> [hrp |-> OrBitcoin(net).bech32, version |-> 0,
                program |-> <<"hash160", pub>>],
   output |-> P2wpkhScript(pub)]

\* a 2-of-2 witness-script multisig of two other owners
MultisigScript == [type |-> "p2wsh-multisig", m |-> 2,
                   keys |-> {PublicKey("K2"), PublicKey("K3")}]

\* ---------------------------------------------------------------- the PSBT
EmptyPsbt == [inputs |-> <<>>, outputs |-> <<>>]

Outputs ==
  <<[value |-> 9000, script |-> P2wpkhScript(PublicKey("K3"))],
    [value |-> 10500, script |-> P2wpkhScript(PublicKey("K1"))]>>

InputRef(idx) == [txid |-> <<"txid", idx>>, vout |-> idx - 1]
InputValue(idx) == 10000 * idx

\* the unsigned transaction a signature commits to: the previous-output
\* references in order and the outputs in order
UnsignedTx(p) ==
  [ins |-> [k \in 1..Len(p.inputs) |-> p.inputs[k].ref], outs |-> p.outputs]

\* mutant: the digest also commits to the signatures and witnesses the
\* PSBT holds at the moment of signing
HashForSig_CommitsToSignatures(p, idx) ==
  [tx |-> [ins |-> p.inputs, outs |-> p.outputs], index |-> idx,
   script |-> p.inputs[idx].witnessUtxo[1].script,
   value |-> p.inputs[idx].witnessUtxo[1].value]

\* getHashForSig for a segwit v0 input: BIP-143 digest over the transaction,
\* the input's index, and the previous output's script and value
HashForSig(p, idx) ==
  [tx |-> UnsignedTx(p), index |-> idx,
   script |-> p.inputs[idx].witnessUtxo[1].script,
   value |-> p.inputs[idx].witnessUtxo[1].value]

\* ecc.sign(hash, privateKey), deterministic
eccSign(hash, priv) == [by |-> priv, over |-> hash]
\* ecc.verify(msghash, pubkey, signature)
eccVerify(msghash, pub, signature) ==
  /\ PublicKey(signature.by) = pub
  /\ signature.over = msghash

HasUtxo(input) == Len(input.witnessUtxo) = 1
pubkeyInScript(pub, script) == pub \in script.keys
isFinalized(input) == Len(input.finalScriptWitness) > 0

\* --------------------------------------------- bitcoinjs-lib calls on a PSBT
\* psbt.signInput(i, signer, [SIGHASH_ALL]): throws when the input has no
\* previous-output data, when the key is not in the input's script, and when
\* the key has already signed the input; otherwise appends the partial
\* signature {pubkey, signature || sighash flag} to input i.
signInput(p, idx, kp) ==
  LET input == p.inputs[idx] IN
  IF ~HasUtxo(input)
    THEN [ok |-> FALSE, err |-> "Need a Utxo input item for signing", psbt |-> p]
  ELSE IF ~pubkeyInScript(kp.publicKey, input.witnessUtxo[1].script)
    THEN [ok |-> FALSE, err |-> "Can not sign for this input with the key", psbt |-> p]
  ELSE IF \E k \in 1..Len(input.partialSig) : input.partialSig[k].pubkey = kp.publicKey
    THEN [ok |-> FALSE, err |-> "Can not add duplicate data to array", psbt |-> p]
  ELSE
    LET pSig == [pubkey |-> kp.publicKey,
                 signature |-> [sig |-> eccSign(HashForSig(p, idx), kp.privateKey),
                                hashType |-> "SIGHASH_ALL"]]
    IN [ok |-> TRUE, err |-> "",
        psbt |-> [p EXCEPT !.inputs[idx].partialSig = Append(@, pSig)]]

\* the validator of the script: ecc.verify, with any exception turned to false
validator(pub, msghash, signature) == eccVerify(msghash, pub, signature)

\* bscript.signature.decode(pSig.signature): the trailing sighash flag byte
\* must be one of ALL, NONE, SINGLE (with or without ANYONECANPAY), else
\* it throws `Invalid hashType`
HashTypes == {"SIGHASH_ALL", "SIGHASH_NONE", "SIGHASH_SINGLE"}
decodes(signature) == signature.hashType \in HashTypes

\* psbt.validateSignaturesOfInput(i, validator): "throw", "true" or "false".
\* Each partial signature is decoded, its key looked up in the script and
\* only then handed to the validator; the first two steps throw.
validateSignaturesOfInput(p, idx) ==
  LET input == p.inputs[idx] IN
  IF Len(input.partialSig) < 1 THEN "throw"
  ELSE IF \E k \in 1..Len(input.partialSig) : ~decodes(input.partialSig[k].signature)
    THEN "throw"
  ELSE IF ~HasUtxo(input) THEN "throw"
  ELSE IF \E k \in 1..Len(input.partialSig) :
            ~pubkeyInScript(input.partialSig[k].pubkey, input.witnessUtxo[1].script)
    THEN "throw"
  ELSE IF \A k \in 1..Len(input.partialSig) :
            validator(input.partialSig[k].pubkey, HashForSig(p, idx),
                      input.partialSig[k].signature.sig)
    THEN "true"
  ELSE "false"

\* psbt.validateSignaturesOfAllInputs(validator): every input is validated
\* (no short cut on false), an exception of any input propagates
validateSignaturesOfAllInputs(p) ==
  IF Len(p.inputs) = 0 THEN "throw"
  ELSE IF \E k \in 1..Len(p.inputs) : validateSignaturesOfInput(p, k) = "throw"
    THEN "throw"
  ELSE IF \A k \in 1..Len(p.inputs) : validateSignaturesOfInput(p, k) = "true"
    THEN "true"
  ELSE "false"

\* canFinalize: the script type's number of signatures is present
canFinalize(input) ==
  /\ HasUtxo(input)
  /\ \A k \in 1..Len(input.partialSig) : decodes(input.partialSig[k].signature)
  /\ Len(input.partialSig) = input.witnessUtxo[1].script.m
  /\ \A k \in 1..Len(input.partialSig) :
       pubkeyInScript(input.partialSig[k].pubkey, input.witnessUtxo[1].script)

\* mutant: the previous output is cleared with the rest
clearFinalizedInput_DropsUtxo(input) ==
  [ref |-> input.ref, witnessUtxo |-> <<>>,
   partialSig |-> <<>>, finalScriptWitness |-> input.finalScriptWitness]

\* mutant: everything but the previous output is cleared, the witness too
clearFinalizedInput_ClearsWitness(input) ==
  [ref |-> input.ref, witnessUtxo |-> input.witnessUtxo,
   partialSig |-> <<>>, finalScriptWitness |-> <<>>]

\* clearFinalizedInput: only the previous output and the final witness stay
clearFinalizedInput(input) ==
  [ref |-> input.ref, witnessUtxo |-> input.witnessUtxo,
   partialSig |-> <<>>, finalScriptWitness |-> input.finalScriptWitness]

\* psbt.finalizeInput(i): the witness stack {signature || flag, public key}
finalizeInput(p, idx) ==
  LET input == p.inputs[idx] IN
  IF ~canFinalize(input)
    THEN [ok |-> FALSE, psbt |-> p]
    ELSE [ok |-> TRUE,
          psbt |-> [p EXCEPT !.inputs[idx] =
                      clearFinalizedInput(
                        [input EXCEPT !.finalScriptWitness =
                           [k \in 1..Len(input.partialSig) |->
                              <<input.partialSig[k].signature,
                                input.partialSig[k].pubkey>>]])]]

\* psbt.finalizeAllInputs(): range(n).forEach(finalizeInput), in place; the
\* first input that cannot be finalized throws and ends the loop
RECURSIVE finalizeFrom(_, _)
finalizeFrom(p, idx) ==
  IF idx > Len(p.inputs) THEN [ok |-> TRUE, psbt |-> p]
  ELSE LET r == finalizeInput(p, idx) IN
       IF r.ok THEN finalizeFrom(r.psbt, idx + 1)
       ELSE [ok |-> FALSE, psbt |-> r.psbt]

finalizeAllInputs(p) ==
  IF Len(p.inputs) = 0 THEN [ok |-> FALSE, psbt |-> p]
  ELSE finalizeFrom(p, 1)

NoTx == [ins |-> <<>>, outs |-> <<>>]

\* mutant: extraction without the finalized check
extractTransaction_Unchecked(p) ==
  [ok |-> TRUE,
   tx |-> [ins |-> [k \in 1..Len(p.inputs) |->
                      [ref |-> p.inputs[k].ref,
                       witness |-> p.inputs[k].finalScriptWitness]],
           outs |-> p.outputs]]

\* psbt.extractTransaction(): throws "Not finalized" unless every input is
extractTransaction(p) ==
  IF \A k \in 1..Len(p.inputs) : isFinalized(p.inputs[k])
    THEN [ok |-> TRUE,
          tx |-> [ins |-> [k \in 1..Len(p.inputs) |->
                             [ref |-> p.inputs[k].ref,
                              witness |-> p.inputs[k].finalScriptWitness]],
                  outs |-> p.outputs]]
    ELSE [ok |-> FALSE, tx |-> NoTx]

\* tx.toHex(): the witness-inclusive serialization
toHex(tx) == <<"hex", tx>>
\* tx.getId(): the hash of the serialization without witnesses
getId(tx) == <<"txid", [k \in 1..Len(tx.ins) |-> tx.ins[k].ref], tx.outs>>

\* ------------------------------------------------- the PSBTs that are loaded
\* What an externally built PSBT holds at an input when it is loaded: an
\* output of the WIF's key, an output of another owner (unsigned, signed by
\* that owner, carrying a signature that does not verify, or carrying that
\* owner's signature with its sighash flag byte cleared), a 2-of-2 multisig
\* output of other owners signed by one of them, or an input whose
\* previous-output data is absent.  No input is signed by the WIF's key yet.
Variants == {"own", "foreign", "foreignSigned", "foreignBadSig", "foreignBadFlag",
             "multisigSigned", "noUtxo"}

\* a previous output whose script is of no address type (OP_RETURN data)
NullDataScript == [type |-> "nulldata", m |-> 0, keys |-> {}]

VariantScript(v) ==
  IF v = "own" THEN P2wpkhScript(PublicKey("K1"))
  ELSE IF v = "nullData" THEN NullDataScript
  ELSE IF v = "multisigSigned" THEN MultisigScript
  ELSE P2wpkhScript(PublicKey("K2"))

\* the PSBT of a shape (a sequence of variants) before any signature
Unsigned(shape) ==
  [inputs |-> [k \in 1..Len(shape) |->
     [ref |-> InputRef(k),
      witnessUtxo |-> IF shape[k] = "noUtxo" THEN <<>>
                      ELSE <<[value |-> InputValue(k), script |-> VariantScript(shape[k])]>>,
      partialSig |-> <<>>,
      finalScriptWitness |-> <<>>]],
   outputs |-> Outputs]

ForeignSig(shape, k) ==
  LET h == HashForSig(Unsigned(shape), k)
      signedHash == IF shape[k] = "foreignBadSig" THEN [h EXCEPT !.value = @ + 1] ELSE h
  IN [pubkey |-> PublicKey("K2"),
      signature |-> [sig |-> eccSign(signedHash, "K2"),
                     hashType |-> IF shape[k] = "foreignBadFlag" THEN "0x00"
                                  ELSE "SIGHASH_ALL"]]

\* Psbt.fromBase64 of a well-formed PSBT of that shape
MakePsbt(shape) ==
  [Unsigned(shape) EXCEPT !.inputs =
     [k \in 1..Len(shape) |->
        IF shape[k] \in {"foreignSigned", "foreignBadSig", "foreignBadFlag",
                        "multisigSigned"}
          THEN [@[k] EXCEPT !.partialSig = <<ForeignSig(shape, k)>>]
          ELSE @[k]]]

Shapes == UNION {[1..n -> Variants] : n \in 0..MaxInputs}

\* ------------------------------------------------------------ command lines
NetArgs == {mainnetS, bitcoinS, testnetS, signetS, regtestS, TestNetS, tesnetS, EmptyS}
FourNetworks == {mainnetS, testnetS, signetS, regtestS}
Wifs == {[version |-> "main", key |-> "K1"], [version |-> "test", key |-> "K1"]}

DestAddress  == [hrp |-> "tb", version |-> 0, program |-> <<"hash160", PublicKey("K3")>>]
OtherAddress == [hrp |-> "tb", version |-> 0, program |-> <<"hash160", PublicKey("K2")>>]
NoAddress    == [hrp |-> "", version |-> 0, program |-> <<"hash160", PublicKey("")>>]

FeeArgs == {<<"5">>, <<"1", "2">>, <<"x">>}

\* the argv of sign_and_broadcast.js <NETWORK> <WIF> <PSBT_BASE64>
SignArgvs ==
  {[net |-> n, wif |-> w, wellFormed |-> TRUE, shape |-> sh,
    to |-> NoAddress, amount |-> "", fee |-> <<>>] :
      n \in NetArgs, w \in Wifs, sh \in Shapes}
  \cup
  {[net |-> n, wif |-> w, wellFormed |-> FALSE, shape |-> <<>>,
    to |-> NoAddress, amount |-> "", fee |-> <<>>] :
      n \in {testnetS}, w \in Wifs}

\* --------------------------------------------------------------- the state
VARIABLES
  prog,        \* which script runs: "sign", "build" or "ops"
  pc,          \* the statement the script is at
  argv,        \* process.argv
  network,     \* the selected network
  keyPair,     \* ECPair.fromWIF
  address,     \* the P2WPKH address derived from the key
  psbt,        \* the PSBT, mutated in place
  loaded,      \* the PSBT as it was loaded
  i,           \* the signing loop's index (1-based)
  signed,      \* the signing loop's count
  attempts,    \* the indexes signInput was called with, in order
  skipped,     \* the `signInput(i) failed` lines: [index, err]
  valid,       \* the result of validateSignaturesOfAllInputs
  beforeFinalize, \* the PSBT when finalizeAllInputs was called
  printedTx,   \* the `Signed TX` outputs: [txid, hex]
  submitted,   \* the POSTs to a broadcaster: [url, body]
  response,    \* the broadcaster's response
  printedOk,   \* the `Broadcast success` outputs
  printedErr,  \* the `Broadcast failed` outputs: [status, text]
  inspected,   \* inspect: the per-input reports printed
  exitCode,    \* -1 while running
  err,         \* what console.error printed last
  reached,     \* the statements executed so far
  queried,     \* build: the addresses whose UTXOs were queried
  utxos,       \* build: the UTXO query's result
  printedReq,  \* build: the transfer requests printed
  opsLog       \* ops: the calls made and their results

vars == <<prog, pc, argv, network, keyPair, address, psbt, loaded, i, signed,
          attempts, skipped, valid, beforeFinalize, printedTx, submitted,
          response, printedOk, printedErr, inspected, exitCode, err, reached,
          queried, utxos,
          printedReq, opsLog>>

signVars == <<network, keyPair, address, psbt, loaded, i, signed, attempts,
              skipped, valid, beforeFinalize, printedTx, submitted, response,
              printedOk, printedErr>>
buildVars == <<queried, utxos, printedReq>>

NoResponse == [ok |-> FALSE, status |-> 0, text |-> <<"none">>]

InitCommon ==
  /\ network = NoNetwork
  /\ keyPair = NoKeyPair
  /\ address = NoAddress
  /\ psbt = EmptyPsbt
  /\ loaded = EmptyPsbt
  /\ i = 1
  /\ signed = 0
  /\ attempts = <<>>
  /\ skipped = <<>>
  /\ valid = ""
  /\ beforeFinalize = EmptyPsbt
  /\ printedTx = <<>>
  /\ submitted = <<>>
  /\ response = NoResponse
  /\ printedOk = <<>>
  /\ printedErr = <<>>
  /\ inspected = <<>>
  /\ exitCode = -1
  /\ err = ""
  /\ reached = {}
  /\ queried = <<>>
  /\ utxos = <<>>
  /\ printedReq = <<>>
  /\ opsLog = <<>>

InitSign ==
  /\ prog = "sign"
  /\ pc = "args"
  /\ argv \in SignArgvs
  /\ InitCommon

\* process.exit(code) after console.error(msg), or the catch of line 130
Exit(code, msg) ==
  /\ pc' = "done"
  /\ exitCode' = code
  /\ err' = msg

Goto(label) ==
  /\ pc' = label
  /\ UNCHANGED <<exitCode, err>>

At(label) ==
  /\ prog = "sign"
  /\ pc = label
  /\ reached' = reached \cup {label}

\* ------------------------------------------------- sign_and_broadcast.js
\* lines 54-58: the usage check
SArgs ==
  /\ At("args")
  /\ IF Falsy(argv.net)
       THEN Exit(1, "Usage")
       ELSE Goto("getNetwork")
  /\ UNCHANGED <<prog, argv, signVars, buildVars, inspected, opsLog>>

\* line 60
SGetNetwork ==
  /\ At("getNetwork")
  /\ LET r == getNetwork(argv.net) IN
       IF r.ok
         THEN /\ network' = r.net
              /\ Goto("fromWIF")
         ELSE /\ network' = network
              /\ Exit(1, "Unknown network")
  /\ UNCHANGED <<prog, argv, keyPair, address, psbt, loaded, i, signed, attempts,
                 skipped, valid, beforeFinalize, printedTx, submitted, response,
                 printedOk, printedErr, buildVars, inspected, opsLog>>

\* lines 61-65: the key pair and its P2WPKH address
SFromWIF ==
  /\ At("fromWIF")
  /\ LET r == fromWIF(argv.wif, network) IN
       IF r.ok
         THEN /\ keyPair' = r.kp
              /\ address' = p2wpkh(r.kp.publicKey, network).address
              /\ Goto("load")
         ELSE /\ UNCHANGED <<keyPair, address>>
              /\ Exit(1, "Invalid network version")
  /\ UNCHANGED <<prog, argv, network, psbt, loaded, i, signed, attempts,
                 skipped, valid, beforeFinalize, printedTx, submitted, response,
                 printedOk, printedErr, buildVars, inspected, opsLog>>

\* lines 67-75: Psbt.fromBase64, the signer, signed = 0
SLoad ==
  /\ At("load")
  /\ IF argv.wellFormed
       THEN /\ psbt' = MakePsbt(argv.shape)
            /\ loaded' = MakePsbt(argv.shape)
            /\ Goto("sign")
       ELSE /\ UNCHANGED <<psbt, loaded>>
            /\ Exit(1, "Format Error")
  /\ i' = 1
  /\ signed' = 0
  /\ UNCHANGED <<prog, argv, network, keyPair, address, attempts,
                 skipped, valid, beforeFinalize, printedTx, submitted, response,
                 printedOk, printedErr, buildVars, inspected, opsLog>>

\* mutant: signed++ after the try/catch, so a failed input is counted too
SignBody_CountsFailures(p, idx, kp, count, log) ==
  LET r == signInput(p, idx, kp) IN
  IF r.ok
    THEN [psbt |-> r.psbt, signed |-> count + 1, skipped |-> log, next |-> idx + 1]
    ELSE [psbt |-> r.psbt, signed |-> count + 1,
          skipped |-> Append(log, [index |-> idx, err |-> r.err]), next |-> idx + 1]

\* mutant: the try/catch around the whole loop, so the first failure ends it
SignBody_BreaksOnError(p, idx, kp, count, log) ==
  LET r == signInput(p, idx, kp) IN
  IF r.ok
    THEN [psbt |-> r.psbt, signed |-> count + 1, skipped |-> log, next |-> idx + 1]
    ELSE [psbt |-> r.psbt, signed |-> count,
          skipped |-> Append(log, [index |-> idx, err |-> r.err]),
          next |-> Len(p.inputs) + 1]

\* one pass of the loop, lines 76-82: the PSBT, the count, the log and i++
SignBody(p, idx, kp, count, log) ==
  LET r == signInput(p, idx, kp) IN
  IF r.ok
    THEN [psbt |-> r.psbt, signed |-> count + 1, skipped |-> log, next |-> idx + 1]
    ELSE [psbt |-> r.psbt, signed |-> count,
          skipped |-> Append(log, [index |-> idx, err |-> r.err]), next |-> idx + 1]

\* lines 76-83: one iteration of the signing loop, or its end
SSign ==
  /\ At("sign")
  /\ IF i <= Len(psbt.inputs)
       THEN LET b == SignBody(psbt, i, keyPair, signed, skipped) IN
            /\ psbt' = b.psbt
            /\ signed' = b.signed
            /\ skipped' = b.skipped
            /\ attempts' = Append(attempts, i)
            /\ i' = b.next
            /\ Goto("sign")
       ELSE /\ UNCHANGED <<psbt, signed, skipped, attempts, i>>
            /\ Goto("checkSigned")
  /\ UNCHANGED <<prog, argv, network, keyPair, address, loaded,
                 valid, beforeFinalize, printedTx, submitted, response,
                 printedOk, printedErr, buildVars, inspected, opsLog>>

\* mutant: the zero check never fires
NoInputsSigned_Never(count) == count < 0

\* the condition of line 85
NoInputsSigned(count) == count = 0

\* lines 85-92
SCheckSigned ==
  /\ At("checkSigned")
  /\ IF NoInputsSigned(signed)
       THEN Exit(2, "No inputs were signed")
       ELSE Goto("validate")
  /\ UNCHANGED <<prog, argv, signVars, buildVars, inspected, opsLog>>

\* mutant: validateSignaturesOfAllInputs is called and its result not tested
ValidationPassed_ResultIgnored(v) == v # "throw"

\* the condition of line 100 under which the script goes on to finalize
ValidationPassed(v) == v = "true"

\* lines 94-102
SValidate ==
  /\ At("validate")
  /\ valid' = validateSignaturesOfAllInputs(psbt)
  /\ IF ValidationPassed(valid')
       THEN Goto("finalize")
       ELSE IF valid' = "false"
         THEN Exit(1, "Signature validation failed")
         ELSE Exit(1, "validateSignaturesOfAllInputs threw")
  /\ UNCHANGED <<prog, argv, network, keyPair, address, psbt, loaded, i, signed,
                 attempts, skipped, beforeFinalize, printedTx, submitted, response,
                 printedOk, printedErr, buildVars, inspected, opsLog>>

\* line 104
SFinalize ==
  /\ At("finalize")
  /\ beforeFinalize' = psbt
  /\ LET r == finalizeAllInputs(psbt) IN
       /\ psbt' = r.psbt
       /\ IF r.ok THEN Goto("extract") ELSE Exit(1, "Can not finalize input")
  /\ UNCHANGED <<prog, argv, network, keyPair, address, loaded, i, signed,
                 attempts, skipped, valid, printedTx, submitted, response,
                 printedOk, printedErr, buildVars, inspected, opsLog>>

\* lines 106-111: extract, serialize and print the signed transaction
SExtract ==
  /\ At("extract")
  /\ LET r == extractTransaction(psbt) IN
       IF r.ok
         THEN /\ printedTx' = Append(printedTx, [txid |-> getId(r.tx), hex |-> toHex(r.tx)])
              /\ Goto("broadcastUrl")
         ELSE /\ UNCHANGED printedTx
              /\ Exit(1, "Not finalized")
  /\ UNCHANGED <<prog, argv, network, keyPair, address, psbt, loaded, i, signed,
                 attempts, skipped, valid, beforeFinalize, submitted, response,
                 printedOk, printedErr, buildVars, inspected, opsLog>>

\* the fetch of lines 115-120: the broadcaster accepts, rejects, or the
\* request fails
Responses ==
  {[ok |-> TRUE, status |-> 200, text |-> <<"txid", "\n">>],
   [ok |-> FALSE, status |-> 400, text |-> <<" ", "sendrawtransaction RPC error", "\n">>]}

\* lines 114-120
SBroadcast ==
  /\ At("broadcastUrl")
  /\ LET u == broadcastUrl(argv.net) IN
       IF u.ok
         THEN /\ submitted' = Append(submitted,
                                [url |-> u.url, body |-> printedTx[Len(printedTx)].hex])
              /\ \/ /\ response' \in Responses
                    /\ Goto("response")
                 \/ /\ response' = response
                    /\ Exit(1, "fetch failed")
         ELSE /\ UNCHANGED <<submitted, response>>
              /\ Exit(1, u.err)
  /\ UNCHANGED <<prog, argv, network, keyPair, address, psbt, loaded, i, signed,
                 attempts, skipped, valid, beforeFinalize, printedTx,
                 printedOk, printedErr, buildVars, inspected, opsLog>>

\* text.trim(): the text without its leading and trailing white space
IsSpace(c) == c \in {" ", "\n"}
trim(text) ==
  LET solid == {k \in 1..Len(text) : ~IsSpace(text[k])} IN
  IF solid = {} THEN <<>>
  ELSE LET first == CHOOSE k \in solid : \A j \in solid : k <= j
           last  == CHOOSE k \in solid : \A j \in solid : k >= j
       IN SubSeq(text, first, last)

\* mutant: the response is taken as accepted whatever its status
Rejected_Never(resp) == FALSE

\* the condition of line 122
Rejected(resp) == ~resp.ok

\* lines 122-129
SResponse ==
  /\ At("response")
  /\ IF Rejected(response)
       THEN /\ Exit(3, "Broadcast failed")
            /\ printedErr' = Append(printedErr, [status |-> response.status,
                                                 text |-> response.text])
            /\ UNCHANGED printedOk
       ELSE /\ printedOk' = Append(printedOk, trim(response.text))
            /\ pc' = "done"
            /\ exitCode' = 0
            /\ err' = err
            /\ UNCHANGED printedErr
  /\ UNCHANGED <<prog, argv, network, keyPair, address, psbt, loaded, i, signed,
                 attempts, skipped, valid, beforeFinalize, printedTx, submitted,
                 response, buildVars, inspected, opsLog>>

NextSign ==
  \/ SArgs \/ SGetNetwork \/ SFromWIF \/ SLoad \/ SSign \/ SCheckSigned
  \/ SValidate \/ SFinalize \/ SExtract \/ SBroadcast \/ SResponse

\* ------------------------------------------------ fetch_utxos_and_build.js
\* the argv of fetch_utxos_and_build.js <NETWORK> <WIF> <TO_ADDRESS> <AMOUNT_BTC>
\* <FEE_RATE_SAT_VB>
BuildArgvs ==
  {[net |-> n, wif |-> w, wellFormed |-> TRUE, shape |-> <<>>,
    to |-> t, amount |-> "0.00009", fee |-> f] :
      n \in NetArgs, w \in Wifs, t \in {DestAddress, OtherAddress}, f \in FeeArgs}

InitBuild ==
  /\ prog = "build"
  /\ pc = "args"
  /\ argv \in BuildArgvs
  /\ InitCommon

BAt(label) ==
  /\ prog = "build"
  /\ pc = label
  /\ reached' = reached \cup {label}

\* lines 37-39: the network of the key and of the UTXO query
selectNetwork(name) ==
  IF toLowerCase(name) = testnetS THEN testnetN ELSE bitcoinN

\* lines 51-53
baseUrl(net) ==
  IF net = testnetN THEN "https://blockstream.info/testnet/api"
  ELSE "https://blockstream.info/api"

DigitOf(c) ==
  IF c = "0" THEN 0 ELSE IF c = "1" THEN 1 ELSE IF c = "2" THEN 2
  ELSE IF c = "5" THEN 5 ELSE -1

\* parseInt(s, 10): the leading digits' value, NaN when there is none
RECURSIVE parseDigits(_, _, _)
parseDigits(s, k, acc) ==
  IF k > Len(s) \/ DigitOf(s[k]) < 0 THEN acc
  ELSE parseDigits(s, k + 1, 10 * acc + DigitOf(s[k]))

parseInt(s) ==
  IF Len(s) = 0 \/ DigitOf(s[1]) < 0
    THEN [nan |-> TRUE, n |-> 0]
    ELSE [nan |-> FALSE, n |-> parseDigits(s, 1, 0)]

\* bitcoin.address.toOutputScript(address, network): the bech32 prefix must
\* be the network's; a version-0 20-byte program is a P2WPKH script
toOutputScript(addr, net) ==
  IF addr.hrp = net.bech32
    THEN [ok |-> TRUE, script |-> P2wpkhScript(addr.program[2])]
    ELSE [ok |-> FALSE, script |-> P2wpkhScript(PublicKey(""))]

\* lines 85-88
getP2WPKHScriptPubKeyHex(addr, net) ==
  <<"hex", toOutputScript(addr, net).script>>

\* what the block explorer may answer: any list of outputs, each with a
\* script field the explorer chose
UtxoSet ==
  {[txid |-> t, vout |-> IF t = "aa" THEN 0 ELSE 1, value |-> a,
    scriptpubkey |-> <<"hex", P2wpkhScript(PublicKey(k))>>] :
     t \in {"aa", "bb"}, a \in {546, 20000}, k \in {"K1", "K2"}}
UtxoLists == UNION {[1..n -> UtxoSet] : n \in 0..MaxUtxos}

\* mutant: the script is taken from the explorer's response
toInputDescriptor_ResponseScript(u, fromAddress, net) ==
  [txid |-> u.txid,
   vout |-> u.vout,
   amount_sats |-> u.value,
   script_pubkey_hex |-> u.scriptpubkey,
   sequence |-> "null"]

\* lines 73-79: the input descriptor of one UTXO
toInputDescriptor(u, fromAddress, net) ==
  [txid |-> u.txid,
   vout |-> u.vout,
   amount_sats |-> u.value,
   script_pubkey_hex |-> getP2WPKHScriptPubKeyHex(fromAddress, net),
   sequence |-> "null"]

\* mutant: the change goes to the address given on the command line
transferInput_ChangeToDestination(args, fromAddress, net, us) ==
  [network |-> toLowerCase(args.net),
   to_address |-> args.to,
   amount_btc |-> args.amount,
   change_address |-> args.to,
   fee_rate_sat_per_vb |-> parseInt(args.fee),
   assume_taproot |-> FALSE,
   utxos |-> [k \in 1..Len(us) |-> toInputDescriptor(us[k], fromAddress, net)]]

\* lines 66-80
transferInput(args, fromAddress, net, us) ==
  [network |-> toLowerCase(args.net),
   to_address |-> args.to,
   amount_btc |-> args.amount,
   change_address |-> fromAddress,
   fee_rate_sat_per_vb |-> parseInt(args.fee),
   assume_taproot |-> FALSE,
   utxos |-> [k \in 1..Len(us) |-> toInputDescriptor(us[k], fromAddress, net)]]

\* lines 31-35
BArgs ==
  /\ BAt("args")
  /\ IF Falsy(argv.net)
       THEN Exit(1, "Usage")
       ELSE Goto("network")
  /\ UNCHANGED <<prog, argv, signVars, buildVars, inspected, opsLog>>

\* lines 37-39
BNetwork ==
  /\ BAt("network")
  /\ network' = selectNetwork(argv.net)
  /\ Goto("fromWIF")
  /\ UNCHANGED <<prog, argv, keyPair, address, psbt, loaded, i, signed, attempts,
                 skipped, valid, beforeFinalize, printedTx, submitted, response,
                 printedOk, printedErr, buildVars, inspected, opsLog>>

\* lines 41-49; an exception ends main() in .catch(console.error), line 90
BFromWIF ==
  /\ BAt("fromWIF")
  /\ LET r == fromWIF(argv.wif, network) IN
       IF r.ok
         THEN /\ keyPair' = r.kp
              /\ address' = p2wpkh(r.kp.publicKey, network).address
              /\ Goto("fetch")
         ELSE /\ UNCHANGED <<keyPair, address>>
              /\ Exit(0, "Invalid network version")
  /\ UNCHANGED <<prog, argv, network, psbt, loaded, i, signed, attempts,
                 skipped, valid, beforeFinalize, printedTx, submitted, response,
                 printedOk, printedErr, buildVars, inspected, opsLog>>

\* lines 55-60: the UTXO query for the derived address
BFetch ==
  /\ BAt("fetch")
  /\ queried' = Append(queried, [base |-> baseUrl(network), address |-> address])
  /\ \/ /\ utxos' \in UtxoLists
        /\ Goto("check")
     \/ /\ utxos' = utxos
        /\ Exit(1, "Error fetching UTXOs")
     \/ /\ utxos' = utxos
        /\ Exit(0, "fetch failed")
  /\ UNCHANGED <<prog, argv, signVars, printedReq, inspected, opsLog>>

\* mutant: the empty check never fires
EmptyUtxoSet_Never(us) == Len(us) < 0

\* the condition of line 61
EmptyUtxoSet(us) == Len(us) = 0

\* lines 61-64
BCheck ==
  /\ BAt("check")
  /\ IF EmptyUtxoSet(utxos)
       THEN Exit(1, "No UTXOs found for this address.")
       ELSE Goto("print")
  /\ UNCHANGED <<prog, argv, signVars, buildVars, inspected, opsLog>>

\* lines 66-82
BPrint ==
  /\ BAt("print")
  /\ printedReq' = Append(printedReq, transferInput(argv, address, network, utxos))
  /\ pc' = "done"
  /\ exitCode' = 0
  /\ err' = err
  /\ UNCHANGED <<prog, argv, signVars, queried, utxos, inspected, opsLog>>

NextBuild == BArgs \/ BNetwork \/ BFromWIF \/ BFetch \/ BCheck \/ BPrint

\* ------------------------------------- the PSBT calls, in any order
\* The calls the script makes on a PSBT (signInput, validate, finalize,
\* extract), applied in any order to any loaded PSBT with the key K1.
OpsArgvs ==
  {[net |-> testnetS, wif |-> [version |-> "test", key |-> "K1"], wellFormed |-> TRUE,
    shape |-> sh, to |-> NoAddress, amount |-> "", fee |-> <<>>] : sh \in Shapes}

InitOps ==
  /\ prog = "ops"
  /\ pc = "ops"
  /\ argv \in OpsArgvs
  /\ network = testnetN
  /\ keyPair = fromWIF(argv.wif, testnetN).kp
  /\ address = p2wpkh(keyPair.publicKey, testnetN).address
  /\ psbt = MakePsbt(argv.shape)
  /\ loaded = MakePsbt(argv.shape)
  /\ i = 1
  /\ signed = 0
  /\ attempts = <<>>
  /\ skipped = <<>>
  /\ valid = ""
  /\ beforeFinalize = EmptyPsbt
  /\ printedTx = <<>>
  /\ submitted = <<>>
  /\ response = NoResponse
  /\ printedOk = <<>>
  /\ printedErr = <<>>
  /\ inspected = <<>>
  /\ exitCode = -1
  /\ err = ""
  /\ reached = {}
  /\ queried = <<>>
  /\ utxos = <<>>
  /\ printedReq = <<>>
  /\ opsLog = <<>>

\* the last call: what was called, on which PSBT, and what it returned
Call(op, idx, ok, result, tx) ==
  /\ opsLog' = <<[op |-> op, index |-> idx, ok |-> ok, result |-> result,
                  before |-> psbt, tx |-> tx]>>
  /\ UNCHANGED <<prog, pc, argv, network, keyPair, address, loaded, i, signed,
                 attempts, skipped, valid, beforeFinalize, printedTx, submitted,
                 response, printedOk, printedErr, inspected, exitCode, err,
                 reached, buildVars>>

OSignInput ==
  /\ prog = "ops"
  /\ \E idx \in 1..Len(psbt.inputs) :
       LET r == signInput(psbt, idx, keyPair) IN
       /\ psbt' = r.psbt
       /\ Call("signInput", idx, r.ok, r.err, NoTx)

OValidate ==
  /\ prog = "ops"
  /\ LET v == validateSignaturesOfAllInputs(psbt) IN
       /\ psbt' = psbt
       /\ Call("validateSignaturesOfAllInputs", 0, v # "throw", v, NoTx)

OFinalizeAll ==
  /\ prog = "ops"
  /\ LET r == finalizeAllInputs(psbt) IN
       /\ psbt' = r.psbt
       /\ Call("finalizeAllInputs", 0, r.ok, "", NoTx)

OExtract ==
  /\ prog = "ops"
  /\ LET r == extractTransaction(psbt) IN
       /\ psbt' = psbt
       /\ Call("extractTransaction", 0, r.ok, IF r.ok THEN "" ELSE "Not finalized", r.tx)

NextOps == OSignInput \/ OValidate \/ OFinalizeAll \/ OExtract

\* ------------------------------------------------------- inspect_psbt.js
\* the argv of inspect_psbt.js <PSBT_BASE64>: any PSBT the other scripts
\* load, and PSBTs with an input whose previous output has no address form
InspectShapes == UNION {[1..n -> Variants \cup {"nullData"}] : n \in 0..MaxInputs}
InspectArgvs ==
  {[net |-> EmptyS, wif |-> [version |-> "test", key |-> "K1"], wellFormed |-> w,
    shape |-> sh, to |-> NoAddress, amount |-> "", fee |-> <<>>] :
      w \in BOOLEAN, sh \in InspectShapes}

InitInspect ==
  /\ prog = "inspect"
  /\ pc = "load"
  /\ argv \in InspectArgvs
  /\ InitCommon

IAt(label) ==
  /\ prog = "inspect"
  /\ pc = label
  /\ reached' = reached \cup {label}

\* bitcoin.address.fromOutputScript(script, network): the address of a
\* script of one of the address types, else it throws
\* `... has no matching Address`
fromOutputScript(script, net) ==
  IF script.type = "p2wpkh"
    THEN [ok |-> TRUE, address |-> <<"bech32", net.bech32, 0, "hash160", script.keys>>]
  ELSE IF script.type = "p2wsh-multisig"
    THEN [ok |-> TRUE, address |-> <<"bech32", net.bech32, 0, "sha256", script.keys>>]
  ELSE [ok |-> FALSE, address |-> <<>>]

\* lines 22-31, the forEach callback: what it prints for one input, and
\* whether it returns (ok) or throws
inspectInput(input, idx) ==
  IF HasUtxo(input)
    THEN LET a == fromOutputScript(input.witnessUtxo[1].script, testnetN) IN
         [ok |-> a.ok,
          lines |-> [index |-> idx - 1, missing |-> FALSE,
                     value |-> <<input.witnessUtxo[1].value>>,
                     script |-> <<<<"hex", input.witnessUtxo[1].script>>>>,
                     address |-> a.address]]
    ELSE [ok |-> TRUE,
          lines |-> [index |-> idx - 1, missing |-> TRUE,
                     value |-> <<>>, script |-> <<>>, address |-> <<>>]]

\* lines 18-19: Psbt.fromBase64 with the default options
ILoad ==
  /\ IAt("load")
  /\ IF argv.wellFormed
       THEN /\ psbt' = MakePsbt(argv.shape)
            /\ loaded' = MakePsbt(argv.shape)
            /\ IF Len(argv.shape) = 0
                 THEN pc' = "done" /\ exitCode' = 0 /\ err' = err
                 ELSE Goto("forEach")
       ELSE /\ UNCHANGED <<psbt, loaded>>
            /\ Exit(1, "Format Error")
  /\ UNCHANGED <<prog, argv, network, keyPair, address, i, signed, attempts,
                 skipped, valid, beforeFinalize, printedTx, submitted, response,
                 printedOk, printedErr, buildVars, inspected, opsLog>>

\* lines 22-31: one call of the forEach callback
IInspect ==
  /\ IAt("forEach")
  /\ i <= Len(psbt.inputs)
  /\ LET r == inspectInput(psbt.inputs[i], i) IN
       /\ inspected' = Append(inspected, r.lines)
       /\ IF ~r.ok THEN Exit(1, "has no matching Address")
          ELSE IF i = Len(psbt.inputs) THEN pc' = "done" /\ exitCode' = 0 /\ err' = err
          ELSE Goto("forEach")
  /\ i' = i + 1
  /\ UNCHANGED <<prog, argv, network, keyPair, address, psbt, loaded, signed,
                 attempts, skipped, valid, beforeFinalize, printedTx, submitted,
                 response, printedOk, printedErr, buildVars, opsLog>>

NextInspect == ILoad \/ IInspect

Init == InitSign \/ InitBuild \/ InitOps \/ InitInspect
Next == NextSign \/ NextBuild \/ NextOps \/ NextInspect
Spec == Init /\ [][Next]_vars

\* ================================================================== claims
AnyFinalized(p) == \E k \in 1..Len(p.inputs) : isFinalized(p.inputs[k])
AllFinalized(p) == \A k \in 1..Len(p.inputs) : isFinalized(p.inputs[k])
AfterValidation == {"finalize", "extract", "broadcastUrl", "response"}

\* C1: in a run of sign_and_broadcast.js an input is finalized only after
\* validateSignaturesOfAllInputs has returned true; when it returns false the
\* run ends with exit code 1 and the error `Signature validation failed`,
\* with no input finalized, no transaction printed and nothing submitted.
C1_FinalizeOnlyAfterValidation ==
  prog = "sign" =>
    /\ (("finalize" \in reached \/ AnyFinalized(psbt)) => valid = "true")
    /\ (valid = "false" =>
          /\ pc = "done"
          /\ exitCode = 1
          /\ err = "Signature validation failed"
          /\ ~AnyFinalized(psbt)
          /\ printedTx = <<>>
          /\ submitted = <<>>
          /\ reached \cap AfterValidation = {})

\* a run in which the key signed an input and another input's attached
\* signature did not verify
C1_Witness ==
  /\ prog = "sign"
  /\ valid = "false"
  /\ signed > 0
  /\ pc = "done"

\* C2: extractTransaction called while an input is not finalized fails with
\* `Not finalized` and yields no transaction; the script prints or submits a
\* transaction only of a PSBT all of whose inputs are finalized.
C2_ExtractRequiresAllFinalized ==
  /\ (/\ prog = "ops"
      /\ Len(opsLog) = 1
      /\ opsLog[1].op = "extractTransaction"
      /\ ~AllFinalized(opsLog[1].before))
     => (/\ ~opsLog[1].ok
         /\ opsLog[1].result = "Not finalized"
         /\ opsLog[1].tx = NoTx)
  /\ (prog = "sign" /\ (printedTx # <<>> \/ submitted # <<>>))
     => (AllFinalized(psbt) /\ Len(psbt.inputs) > 0)

\* extraction attempted on a PSBT of which one input is finalized and another is not
C2_Witness ==
  /\ prog = "ops"
  /\ Len(opsLog) = 1
  /\ opsLog[1].op = "extractTransaction"
  /\ AnyFinalized(opsLog[1].before)
  /\ ~AllFinalized(opsLog[1].before)
  /\ ~opsLog[1].ok

\* C3: when the signing loop ends with signed = 0 the run ends there with
\* exit code 2 (`No inputs were signed`) and never reaches validation,
\* finalization, extraction or broadcast.
C3_NoInputsSignedIsFatal ==
  (prog = "sign" /\ "checkSigned" \in reached /\ signed = 0) =>
    /\ pc = "done"
    /\ exitCode = 2
    /\ err = "No inputs were signed"
    /\ valid = ""
    /\ reached \cap ({"validate"} \cup AfterValidation) = {}
    /\ ~AnyFinalized(psbt)
    /\ printedTx = <<>>
    /\ submitted = <<>>

\* a PSBT with inputs none of which is locked to the key
C3_Witness ==
  /\ prog = "sign"
  /\ exitCode = 2
  /\ Len(psbt.inputs) >= 2
  /\ Len(attempts) = Len(psbt.inputs)
  /\ \A k \in 1..Len(psbt.inputs) :
       HasUtxo(psbt.inputs[k]) /\ ~pubkeyInScript(keyPair.publicKey, psbt.inputs[k].witnessUtxo[1].script)

\* the input's locking script, as loaded, is the key's
C4_Matches(k) ==
  /\ HasUtxo(loaded.inputs[k])
  /\ loaded.inputs[k].witnessUtxo[1].script = p2wpkh(keyPair.publicKey, network).output

C4_NewSignature(k) ==
  [pubkey |-> keyPair.publicKey,
   signature |-> [sig |-> eccSign(HashForSig(loaded, k), keyPair.privateKey),
                  hashType |-> "SIGHASH_ALL"]]

C5_FinalizeAllAtomic ==
  (prog = "sign" /\ "finalize" \in reached /\ err = "Can not finalize input") =>
    /\ ~AnyFinalized(psbt)
    /\ psbt = beforeFinalize

C6_Mismatch == "Can not sign for this input with the key"
C6_MissingPrevout == "Need a Utxo input item for signing"

\* C6 (as claimed): a signInput error other than the locking-script mismatch
\* is not logged as a skipped input with the loop going on: it ends the run,
\* with that error, at that input.
C6_OnlyMismatchIsSoft ==
  prog = "sign" =>
    \A k \in 1..Len(skipped) :
      skipped[k].err # C6_Mismatch =>
        /\ pc = "done"
        /\ err = skipped[k].err
        /\ attempts[Len(attempts)] = skipped[k].index

\* C6 (amended): every error signInput throws for an input, the absent
\* previous-output data as well as the locking-script mismatch, is caught and
\* logged with the input's index; the input is not counted, the loop goes on
\* to the last index with no error raised, and signing ends the run only by
\* the zero check (exit code 2).
C6_EveryInputErrorIsSoft ==
  (prog = "sign" /\ "checkSigned" \in reached) =>
    /\ attempts = [k \in 1..Len(loaded.inputs) |-> k]
    /\ signed + Len(skipped) = Len(loaded.inputs)
    /\ \A k \in 1..Len(loaded.inputs) :
         /\ ~HasUtxo(loaded.inputs[k]) =>
              \E j \in 1..Len(skipped) :
                skipped[j] = [index |-> k, err |-> C6_MissingPrevout]
         /\ (HasUtxo(loaded.inputs[k]) /\ ~C4_Matches(k)) =>
              \E j \in 1..Len(skipped) :
                skipped[j] = [index |-> k, err |-> C6_Mismatch]
    /\ (pc = "checkSigned" => (exitCode = -1 /\ err = ""))
    /\ (signed > 0 => err # "No inputs were signed")
    /\ err \notin {C6_Mismatch, C6_MissingPrevout}

\* an input without previous-output data is skipped, a later input is
\* signed, and the run goes on to validation
C6_Witness ==
  /\ prog = "sign"
  /\ pc = "validate"
  /\ Len(loaded.inputs) >= 2
  /\ ~HasUtxo(loaded.inputs[1])
  /\ skipped[1] = [index |-> 1, err |-> C6_MissingPrevout]
  /\ C4_Matches(2)
  /\ signed > 0

\* the network each of the four identifiers names
C7_NetworkOf(name) ==
  IF name = mainnetS THEN bitcoinN
  ELSE IF name = testnetS THEN testnetN
  ELSE IF name = signetS THEN signetN
  ELSE regtestN

\* C7 (as claimed): in both scripts, once the network has been selected from
\* the argument, one of the four identifiers has selected its own network,
\* and any other value has selected none and ended the run with
\* `Unknown network`.
C7_ExactlyFourNetworks ==
  (prog \in {"sign", "build"} /\ reached \cap {"getNetwork", "network"} # {}) =>
    IF argv.net \in FourNetworks
      THEN network = C7_NetworkOf(argv.net)
      ELSE /\ network = NoNetwork
           /\ pc = "done"
           /\ err = "Unknown network"

\* C8: when the UTXO query returns an empty list, fetch_utxos_and_build.js
\* ends with exit code 1 (`No UTXOs found for this address.`) and prints no
\* transfer request; a printed request has at least one input.
C8_EmptyUtxoSetFails ==
  prog = "build" =>
    /\ ("check" \in reached /\ Len(utxos) = 0) =>
         /\ pc = "done"
         /\ exitCode = 1
         /\ err = "No UTXOs found for this address."
         /\ printedReq = <<>>
         /\ "print" \notin reached
    /\ \A k \in 1..Len(printedReq) : Len(printedReq[k].utxos) > 0

\* the query succeeded with an empty list
C8_Witness ==
  /\ prog = "build"
  /\ "check" \in reached
  /\ Len(queried) = 1
  /\ utxos = <<>>
  /\ exitCode = 1

\* the owner's locking script: the P2WPKH output of the key
C9_OwnerScriptHex == <<"hex", p2wpkh(keyPair.publicKey, network).output>>

\* C9: a printed transfer request has one input descriptor per UTXO of the
\* query's result, in the same order, with the UTXO's txid, output index and
\* value, and with the owner's locking script whatever the UTXO's own fields.
C9_DescriptorsFollowUtxos ==
  prog = "build" =>
    \A r \in 1..Len(printedReq) :
      /\ Len(printedReq[r].utxos) = Len(utxos)
      /\ \A k \in 1..Len(utxos) :
           /\ printedReq[r].utxos[k].txid = utxos[k].txid
           /\ printedReq[r].utxos[k].vout = utxos[k].vout
           /\ printedReq[r].utxos[k].amount_sats = utxos[k].value
           /\ printedReq[r].utxos[k].script_pubkey_hex = C9_OwnerScriptHex

\* two different UTXOs, the second with a script of another owner in the response
C9_Witness ==
  /\ prog = "build"
  /\ Len(printedReq) = 1
  /\ Len(utxos) = 2
  /\ utxos[1].txid # utxos[2].txid
  /\ utxos[1].value # utxos[2].value
  /\ utxos[2].scriptpubkey # C9_OwnerScriptHex
  /\ printedReq[1].utxos[2].script_pubkey_hex = C9_OwnerScriptHex

\* C10: whatever signInput, validateSignaturesOfAllInputs and
\* finalizeAllInputs calls have been made on a PSBT, in the script or in any
\* order, its inputs and outputs are those it was loaded with: as many, in
\* the same order, each input with the same previous-output reference, value
\* and locking script.
C10_InputsAndOutputsKept ==
  prog \in {"sign", "ops"} =>
    /\ Len(psbt.inputs) = Len(loaded.inputs)
    /\ psbt.outputs = loaded.outputs
    /\ \A k \in 1..Len(loaded.inputs) :
         /\ psbt.inputs[k].ref = loaded.inputs[k].ref
         /\ psbt.inputs[k].witnessUtxo = loaded.inputs[k].witnessUtxo

\* a PSBT after signing and finalizing: two inputs finalized, the fields that
\* do change have changed
C10_Witness ==
  /\ prog = "ops"
  /\ Len(psbt.inputs) >= 2
  /\ AllFinalized(psbt)
  /\ Len(opsLog) = 1
  /\ opsLog[1].op = "validateSignaturesOfAllInputs"
  /\ psbt # loaded

\* the witness finalizeInput builds from an input's partial signatures
C11_WitnessOf(input) ==
  [k \in 1..Len(input.partialSig) |->
     <<input.partialSig[k].signature, input.partialSig[k].pubkey>>]

\* C11: in every step on a PSBT, in the script and with the calls in any
\* order: a finalized input stays finalized with the same witness (a second
\* finalize is an error or rebuilds the same witness); an input becomes
\* finalized only from a state with a partial signature, its witness built
\* from it; an input that is not finalized never loses a partial signature;
\* and the script calls finalizeAllInputs at most once.
C11_ForwardOnly ==
  [][/\ (prog \in {"sign", "ops"} /\ Len(psbt'.inputs) = Len(psbt.inputs)) =>
          \A k \in 1..Len(psbt.inputs) :
            /\ isFinalized(psbt.inputs[k]) =>
                 psbt'.inputs[k].finalScriptWitness = psbt.inputs[k].finalScriptWitness
            /\ (~isFinalized(psbt.inputs[k]) /\ isFinalized(psbt'.inputs[k])) =>
                 /\ Len(psbt.inputs[k].partialSig) >= 1
                 /\ psbt'.inputs[k].finalScriptWitness = C11_WitnessOf(psbt.inputs[k])
            /\ (~isFinalized(psbt.inputs[k]) /\ ~isFinalized(psbt'.inputs[k])) =>
                 /\ Len(psbt'.inputs[k].partialSig) >= Len(psbt.inputs[k].partialSig)
                 /\ \A j \in 1..Len(psbt.inputs[k].partialSig) :
                      psbt'.inputs[k].partialSig[j] = psbt.inputs[k].partialSig[j]
     /\ (prog = "sign" /\ "finalize" \in reached) => pc' # "finalize"]_vars

\* finalizeAllInputs called again on a PSBT whose first input is finalized:
\* the call fails and changes nothing
C11_Witness ==
  /\ prog = "ops"
  /\ Len(opsLog) = 1
  /\ opsLog[1].op = "finalizeAllInputs"
  /\ Len(psbt.inputs) >= 2
  /\ isFinalized(opsLog[1].before.inputs[1])
  /\ ~opsLog[1].ok
  /\ psbt = opsLog[1].before

\* C12: the script POSTs the transaction at most once, and only the hex of
\* the transaction it extracted and printed; when the broadcaster rejects
\* it, the run ends with exit code 3 after printing the status and the
\* response text as received, with no success output and no second POST.
C12_BroadcastOnceAfterExtract ==
  prog = "sign" =>
    /\ Len(submitted) <= 1
    /\ submitted # <<>> =>
         /\ "extract" \in reached
         /\ Len(printedTx) = 1
         /\ AllFinalized(psbt)
         /\ submitted[1].body = printedTx[1].hex
    /\ ("response" \in reached /\ ~response.ok) =>
         /\ pc = "done"
         /\ exitCode = 3
         /\ printedErr = <<[status |-> response.status, text |-> response.text]>>
         /\ printedOk = <<>>
         /\ Len(submitted) = 1
    /\ (printedOk # <<>> \/ exitCode = 0) => response.ok

\* the broadcaster rejected the submitted transaction
C12_Witness ==
  /\ prog = "sign"
  /\ "response" \in reached
  /\ ~response.ok
  /\ Len(submitted) = 1
  /\ exitCode = 3

\* the partial signature the key attaches to input k of the loaded PSBT:
\* written out over the loaded PSBT only
C13_Signature(k) ==
  [pubkey |-> keyPair.publicKey,
   signature |->
     [sig |-> [by |-> keyPair.privateKey,
               over |-> [tx |-> [ins |-> [n \in 1..Len(loaded.inputs) |-> loaded.inputs[n].ref],
                                 outs |-> loaded.outputs],
                         index |-> k,
                         script |-> loaded.inputs[k].witnessUtxo[1].script,
                         value |-> loaded.inputs[k].witnessUtxo[1].value]],
      hashType |-> "SIGHASH_ALL"]]

\* the signatures of input k in the finalized transaction: those the loaded
\* PSBT carried, then the key's own where the key is in the input's script
C13_Signatures(k) ==
  loaded.inputs[k].partialSig \o
    (IF HasUtxo(loaded.inputs[k])
        /\ pubkeyInScript(keyPair.publicKey, loaded.inputs[k].witnessUtxo[1].script)
      THEN <<C13_Signature(k)>> ELSE <<>>)

C13_Transaction ==
  [ins |-> [k \in 1..Len(loaded.inputs) |->
              [ref |-> loaded.inputs[k].ref,
               witness |-> [j \in 1..Len(C13_Signatures(k)) |->
                              <<C13_Signatures(k)[j].signature, C13_Signatures(k)[j].pubkey>>]]],
   outs |-> loaded.outputs]

C14_Altered == {k \in 1..Len(argv.shape) : argv.shape[k] \in {"foreignBadSig", "foreignBadFlag"}}
C14_Sound == {k \in 1..Len(argv.shape) : argv.shape[k] \in {"own", "foreignSigned"}}

\* C14: when the signature of exactly one input of a PSBT is altered and the
\* signatures of all its other inputs verify, validateSignaturesOfAllInputs
\* returns false, as a result and not as an exception, and each other input
\* validated on its own still gives true.
C14_AlteredSignatureGivesFalse ==
  /\ (/\ prog = "sign"
      /\ "validate" \in reached
      /\ pc # "validate"
      /\ Cardinality(C14_Altered) = 1
      /\ C14_Altered \cup C14_Sound = 1..Len(argv.shape))
       => /\ valid = "false"
          /\ \A k \in C14_Sound : validateSignaturesOfInput(psbt, k) = "true"
  /\ (/\ prog = "ops"
      /\ Len(opsLog) = 1
      /\ opsLog[1].op = "validateSignaturesOfAllInputs"
      /\ Cardinality(C14_Altered) = 1
      /\ \A k \in C14_Altered : Len(psbt.inputs[k].partialSig) = 1
      /\ \A k \in 1..Len(psbt.inputs) :
           k \notin C14_Altered => validateSignaturesOfInput(psbt, k) = "true")
       => opsLog[1].result = "false"

\* the address prefix and the WIF version of the chain an endpoint serves
C15_ChainOf(url) ==
  IF url = "https://blockstream.info/api/tx" THEN [bech32 |-> "bc", wif |-> "main"]
  ELSE [bech32 |-> "tb", wif |-> "test"]

\* C15: a run for regtest is signed, validated, finalized and printed and
\* only then ends in `No public broadcaster for regtest.` with nothing
\* submitted; every name getNetwork rejects, broadcastUrl rejects too; and a
\* transaction is submitted only to an endpoint of the chain whose parameters
\* the key was decoded with and the address derived with.
C15_BroadcastMatchesNetwork ==
  /\ \A n \in NetArgs : ~getNetwork(n).ok => ~broadcastUrl(n).ok
  /\ prog = "sign" =>
       /\ (network = regtestN /\ "broadcastUrl" \in reached) =>
            /\ pc = "done"
            /\ exitCode = 1
            /\ err = "No public broadcaster for regtest."
            /\ submitted = <<>>
            /\ Len(printedTx) = 1
            /\ valid = "true"
            /\ signed > 0
            /\ AllFinalized(psbt)
       /\ (network = regtestN /\ pc = "done" /\ "broadcastUrl" \notin reached) =>
            err # "No public broadcaster for regtest."
       /\ \A k \in 1..Len(submitted) :
            /\ C15_ChainOf(submitted[k].url).wif = argv.wif.version
            /\ C15_ChainOf(submitted[k].url).bech32 = address.hrp

\* the address of the WIF's key on the network the script selected, and the
\* address a locking script encodes on that network
C16_KeyAddress ==
  [hrp |-> (IF toLowerCase(argv.net) = testnetS THEN "tb" ELSE "bc"),
   version |-> 0, program |-> <<"hash160", <<"pub", argv.wif.key>>>>]
C16_AddressOf(scriptHex) ==
  [hrp |-> (IF toLowerCase(argv.net) = testnetS THEN "tb" ELSE "bc"),
   version |-> 0,
   program |-> <<"hash160", CHOOSE pub \in scriptHex[2].keys : TRUE>>]

C17_InspectionIsTotalAndReadOnly ==
  prog = "inspect" =>
    /\ psbt = loaded
    /\ "load" \in reached => (argv.wellFormed => psbt = MakePsbt(argv.shape))
    /\ Len(inspected) <= Len(psbt.inputs)
    /\ \A k \in 1..Len(inspected) :
         /\ inspected[k].index = k - 1
         /\ inspected[k].missing = ~HasUtxo(psbt.inputs[k])
    /\ (pc = "done" /\ argv.wellFormed) => Len(inspected) = Len(psbt.inputs)

====
